---- MODULE Spec2Model ----
(***************************************************************************)
(* cachetory: the in-memory backend (cachetory/backends/memory.py) with    *)
(* its lazily expiring entries, driven by a sequential client and a clock. *)
(***************************************************************************)
EXTENDS Integers, Sequences, FiniteSets, TLC

\* ---------------------------------------------------------------- bounds
MaxTime == 1
MaxTTL == 1
MaxKeys == 3
MaxCalls == 3

Keys == {"a", "b"}
Values == {"v1", "v2"}

\* ------------------------------------------------------------ Optional[T]
None == << >>
Some(x) == << x >>

Time == 0 .. MaxTime
\* timedelta arguments: negative, zero and positive durations
TTLs == (0 - 1) .. MaxTTL
\* datetime arguments of expire_at: before, at and after the current time
Deadlines == Time

OptTTL == {None} \cup {Some(t) : t \in TTLs}
OptDeadline == {None} \cup {Some(d) : d \in Deadlines}

\* how a caller may pass the keyword if_not_exists
IfNotExistsArgs == {"omitted", "True"}

\* ------------------------------------------------------------------ state
VARIABLES
    entries,    \* MemoryBackend._entries: a dict from key to _Entry
    now,        \* datetime.now(timezone.utc)
    last,       \* the call that returned last, with its outcome
    calls,      \* parity of the number of calls made so far
    mut,        \* per key: the last mutating call made for the key
    many,       \* the keys and the pairs of the last call, when a get_many
    threads,    \* the calls that run concurrently, each with its position
    deco        \* a function decorated with cached, and the calls made of it

vars == << entries, now, last, calls, mut, many, threads, deco >>

\* _Entry(value, deadline)
_Entry(value, deadline) == [value |-> value, deadline |-> deadline]

\* dict primitives
dict_set(es, key, entry) ==
    [x \in (DOMAIN es) \cup {key} |-> IF x = key THEN entry ELSE es[x]]

\* a pop that empties the mapping
dict_pop_all(es, key) == [x \in {} |-> es[x]]

dict_pop(es, key) == [x \in (DOMAIN es) \ {key} |-> es[x]]

dict_get(es, key) == IF key \in DOMAIN es THEN Some(es[key]) ELSE None

\* ------------------------------------------------------------- _get_entry
\* the test of line 17 with the None check lost
discards_no_none_check(entry, t) ==
    entry.deadline = None \/ entry.deadline[1] > t

\* the test of line 17: the entry is discarded when it holds
discards(entry, t) ==
    entry.deadline # None /\ entry.deadline[1] > t

_get_entry(es, key, t) ==
    IF key \notin DOMAIN es
    THEN [raised |-> "KeyError", entries |-> es, entry |-> None]
    ELSE LET entry == es[key] IN
         IF discards(entry, t)
         THEN [raised |-> "KeyError", entries |-> dict_pop(es, key), entry |-> None]
         ELSE [raised |-> "none", entries |-> es, entry |-> Some(entry)]

\* the deadline computed from a time_to_live (memory.py:34, async_.py:61)
deadline_of(time_to_live, t) ==
    IF time_to_live # None THEN Some(t + time_to_live[1]) ELSE None

\* ------------------------------------------------------- call bookkeeping
NoCall ==
    [op |-> "none", key |-> "-", value |-> "-", time_to_live |-> None,
     if_not_exists |-> "omitted", deadline |-> None,
     ret |-> "None", raised |-> "none", follows |-> FALSE, found |-> "-"]

\* the documented notion of a live entry (spec, data model)
Live(entry, t) == entry.deadline = None \/ entry.deadline[1] > t

\* what the mapping holds for a key, in the documented terms
Holds(key) ==
    IF key \notin DOMAIN entries THEN "absent"
    ELSE IF Live(entries[key], now) THEN "live" ELSE "expired"

\* the record of a call; follows: the call comes directly after a set of
\* the same key that returned normally; found: what a get was made on
Call(op, key, value, ttl, ine, deadline, ret, raised) ==
    [op |-> op, key |-> key, value |-> value, time_to_live |-> ttl,
     if_not_exists |-> ine, deadline |-> deadline,
     ret |-> ret, raised |-> raised,
     follows |-> (last.op = "set" /\ last.key = key /\ last.raised = "none"),
     found |-> IF op = "get" THEN Holds(key) ELSE "-"]

NoMany == [keys |-> << >>, pairs |-> << >>]

NoThreads == << >>

NoDeco == << >>

Returned(call) ==
    /\ last' = call
    /\ calls' = 1 - calls
    /\ many' = NoMany
    /\ UNCHANGED << threads, deco >>

NoMut == [kind |-> "none", value |-> "-", deadline |-> None]

Init ==
    /\ entries = [k \in {} |-> None]
    /\ now = 0
    /\ last = NoCall
    /\ calls = 0
    /\ mut = [k \in Keys |-> NoMut]
    /\ many = NoMany
    /\ threads = NoThreads
    /\ deco = NoDeco

\* ---------------------------------------------------------------- actions
\* MemoryBackend.__getitem__
__getitem__(key) ==
    LET r == _get_entry(entries, key, now) IN
    /\ entries' = r.entries
    /\ Returned(Call("get", key, "-", None, "omitted", None,
                     IF r.raised = "none" THEN r.entry[1].value ELSE "None",
                     r.raised))
    /\ UNCHANGED << now, mut >>

\* MemoryBackend.set; the method has no parameter if_not_exists, so a call
\* that passes the keyword fails before the body runs
set(key, value, time_to_live, if_not_exists) ==
    /\ IF if_not_exists # "omitted"
       THEN /\ UNCHANGED << entries, mut >>
            /\ Returned(Call("set", key, value, time_to_live, if_not_exists,
                             None, "None", "TypeError"))
       ELSE /\ entries' = dict_set(entries, key,
                                   _Entry(value, deadline_of(time_to_live, now)))
            /\ Returned(Call("set", key, value, time_to_live, if_not_exists,
                             None, "None", "none"))
            /\ mut' = [mut EXCEPT ![key] =
                         IF time_to_live = None
                         THEN [kind |-> "set", value |-> value, deadline |-> None]
                         ELSE NoMut]
    /\ UNCHANGED now

\* what delete returns, given what the pop found (line 38)
delete_result(found) == found = None

\* MemoryBackend.delete
delete(key) ==
    /\ entries' = dict_pop(entries, key)
    /\ Returned(Call("delete", key, "-", None, "omitted", None,
                     IF delete_result(dict_get(entries, key)) THEN "True" ELSE "False",
                     "none"))
    /\ mut' = [mut EXCEPT ![key] = NoMut]
    /\ UNCHANGED now

\* the effect of MemoryBackend.expire_at on the dict
expire_at_entries(es, key, deadline, t) ==
    LET r == _get_entry(es, key, t) IN
    IF r.raised = "KeyError"
    THEN r.entries
    ELSE dict_set(r.entries, key, _Entry(r.entry[1].value, deadline))

\* the bookkeeping of an expire call: did it address an existing live entry
expire_mut(key, deadline) ==
    IF key \in DOMAIN entries /\ Live(entries[key], now)
    THEN [kind |-> "expire", value |-> entries[key].value, deadline |-> deadline]
    ELSE NoMut

\* MemoryBackend.expire_at
expire_at(key, deadline) ==
    /\ entries' = expire_at_entries(entries, key, deadline, now)
    /\ Returned(Call("expire_at", key, "-", None, "omitted", deadline, "None", "none"))
    /\ mut' = [mut EXCEPT ![key] = expire_mut(key, deadline)]
    /\ UNCHANGED now

\* expire_in of the backend interface
expire_in(key, time_to_live) ==
    LET deadline == deadline_of(time_to_live, now) IN
    /\ entries' = expire_at_entries(entries, key, deadline, now)
    /\ Returned(Call("expire_in", key, "-", time_to_live, "omitted", deadline,
                     "None", "none"))
    /\ mut' = [mut EXCEPT ![key] = expire_mut(key, deadline)]
    /\ UNCHANGED now

\* the key sequences a caller passes to get_many
KeySeqs == UNION {[1 .. n -> Keys] : n \in 1 .. MaxKeys}

\* the loop of get_many over the keys: one get per key, in order, a pair
\* for every get that returns, nothing for a get that raises KeyError
RECURSIVE get_many_loop(_, _, _)
get_many_loop(es, keys, t) ==
    IF keys = << >>
    THEN [entries |-> es, pairs |-> << >>]
    ELSE LET r == _get_entry(es, Head(keys), t)
             rest == get_many_loop(r.entries, Tail(keys), t)
         IN  [entries |-> rest.entries,
              pairs |-> IF r.raised = "none"
                        THEN << << Head(keys), r.entry[1].value >> >> \o rest.pairs
                        ELSE rest.pairs]

\* get_many of the backend interface, consumed to its end
get_many(keys) ==
    LET r == get_many_loop(entries, keys, now) IN
    /\ entries' = r.entries
    /\ many' = [keys |-> keys, pairs |-> r.pairs]
    /\ last' = Call("get_many", "-", "-", None, "omitted", None, "None", "none")
    /\ calls' = 1 - calls
    /\ UNCHANGED << now, mut, threads, deco >>

\* the ways a call of clear can fail: MemoryBackend defines no clear, so the
\* call ends in the attribute lookup or in an inherited stub
ClearErrors == {"AttributeError", "NotImplementedError"}

\* MemoryBackend.clear: not defined by the class
clear(error) ==
    /\ UNCHANGED entries
    /\ Returned(Call("clear", "-", "-", None, "omitted", None, "None", error))
    /\ mut' = [k \in Keys |-> NoMut]
    /\ UNCHANGED now

\* the clock moves on between calls
Tick ==
    /\ now < MaxTime
    /\ now' = now + 1
    /\ UNCHANGED << entries, last, calls, mut, many, threads, deco >>

Next ==
    \/ \E key \in Keys : __getitem__(key)
    \/ \E key \in Keys, value \in Values, ttl \in OptTTL, ine \in IfNotExistsArgs :
          set(key, value, ttl, ine)
    \/ \E key \in Keys : delete(key)
    \/ \E key \in Keys, deadline \in OptDeadline : expire_at(key, deadline)
    \/ \E key \in Keys, ttl \in OptTTL : expire_in(key, ttl)
    \/ \E error \in ClearErrors : clear(error)
    \/ Tick

Spec == Init /\ [][Next]_vars

\* a client that writes entries, lets time pass and reads several keys at once
NextMany ==
    \/ \E key \in Keys, value \in Values, ttl \in OptTTL, ine \in IfNotExistsArgs :
          set(key, value, ttl, ine)
    \/ \E keys \in KeySeqs : get_many(keys)
    \/ Tick

SpecMany == Init /\ [][NextMany]_vars

\* ------------------------------------------------------ concurrent calls
\* Two threads call one MemoryBackend.  A thread is switched between the
\* statements of a method; one operation on the dict is not interrupted.
Threads == {1, 2}

\* a call that has not started
Start(op, key, value, time_to_live) ==
    [op |-> op, key |-> key, value |-> value, time_to_live |-> time_to_live,
     pc |-> "start", entry |-> None, deadline |-> None,
     ret |-> "None", raised |-> "none", found |-> "-"]

StartCalls ==
    {Start("get", key, "-", None) : key \in Keys}
    \cup {Start("delete", key, "-", None) : key \in Keys}
    \cup {Start("set", c[1], c[2], c[3]) : c \in Keys \X Values \X OptTTL}

\* the mappings the calls may start on
StartEntries ==
    UNION {[ks -> {_Entry(v, d) : v \in Values, d \in OptDeadline}] :
             ks \in SUBSET Keys}

InitThreads ==
    /\ entries \in StartEntries
    /\ now = 0
    /\ last = NoCall
    /\ calls = 0
    /\ mut = [k \in Keys |-> NoMut]
    /\ many = NoMany
    /\ threads \in [Threads -> StartCalls]
    /\ deco = NoDeco

Sequential == << last, calls, mut, many, deco >>

\* _get_entry, line 16: entry = self._entries[key]
t_lookup(t) ==
    LET c == threads[t] IN
    /\ c.op = "get" /\ c.pc = "start"
    /\ threads' = [threads EXCEPT ![t] =
          IF c.key \in DOMAIN entries
          THEN [c EXCEPT !.pc = "check", !.entry = Some(entries[c.key]),
                         !.found = Holds(c.key)]
          ELSE [c EXCEPT !.pc = "done", !.raised = "KeyError",
                         !.found = "absent"]]
    /\ UNCHANGED << entries, now >>
    /\ UNCHANGED Sequential

\* _get_entry, line 17 and line 20 with line 23: the test of the deadline,
\* and the return of the value when the entry is kept
t_check(t) ==
    LET c == threads[t] IN
    /\ c.op = "get" /\ c.pc = "check"
    /\ threads' = [threads EXCEPT ![t] =
          IF discards(c.entry[1], now)
          THEN [c EXCEPT !.pc = "pop"]
          ELSE [c EXCEPT !.pc = "done", !.ret = c.entry[1].value]]
    /\ UNCHANGED << entries, now >>
    /\ UNCHANGED Sequential

\* a pop without default: it raises when the key is not in the dict
pop_or_raise(es, key) ==
    [entries |-> dict_pop(es, key), found |-> dict_get(es, key),
     raised |-> IF key \in DOMAIN es THEN "none" ELSE "KeyError"]

\* dict.pop(key, default) of lines 18 and 38: it never raises
pop_default(es, key) ==
    [entries |-> dict_pop(es, key), found |-> dict_get(es, key),
     raised |-> "none"]

\* _get_entry, lines 18 and 19: self._entries.pop(key, None); raise KeyError
t_pop(t) ==
    LET c == threads[t]
        p == pop_default(entries, c.key)
    IN  /\ c.op = "get" /\ c.pc = "pop"
        /\ entries' = p.entries
        /\ threads' = [threads EXCEPT ![t] =
              [c EXCEPT !.pc = "done",
                        !.raised = IF p.raised = "none" THEN "KeyError"
                                   ELSE "KeyError in pop"]]
        /\ UNCHANGED now
        /\ UNCHANGED Sequential

\* set, line 34: the deadline is computed from the clock
t_deadline(t) ==
    LET c == threads[t] IN
    /\ c.op = "set" /\ c.pc = "start"
    /\ threads' = [threads EXCEPT ![t] =
          [c EXCEPT !.pc = "store", !.deadline = deadline_of(c.time_to_live, now)]]
    /\ UNCHANGED << entries, now >>
    /\ UNCHANGED Sequential

\* set, line 35: the new entry is built and stored
t_store(t) ==
    LET c == threads[t] IN
    /\ c.op = "set" /\ c.pc = "store"
    /\ entries' = dict_set(entries, c.key, _Entry(c.value, c.deadline))
    /\ threads' = [threads EXCEPT ![t] = [c EXCEPT !.pc = "done"]]
    /\ UNCHANGED now
    /\ UNCHANGED Sequential

\* delete, line 38
t_delete(t) ==
    LET c == threads[t]
        p == pop_default(entries, c.key)
    IN  /\ c.op = "delete" /\ c.pc = "start"
        /\ entries' = p.entries
        /\ threads' = [threads EXCEPT ![t] =
              [c EXCEPT !.pc = "done", !.raised = p.raised,
                        !.ret = IF delete_result(p.found) THEN "True" ELSE "False"]]
        /\ UNCHANGED now
        /\ UNCHANGED Sequential

NextThreads ==
    \/ \E t \in Threads : t_lookup(t)
    \/ \E t \in Threads : t_check(t)
    \/ \E t \in Threads : t_pop(t)
    \/ \E t \in Threads : t_deadline(t)
    \/ \E t \in Threads : t_store(t)
    \/ \E t \in Threads : t_delete(t)
    \/ Tick

SpecThreads == InitThreads /\ [][NextThreads]_vars

\* ------------------------------------------------------- cached decorator
\* A function decorated with cached(cache, time_to_live, if_not_exists) is
\* called from two callers.  The cache is the mapping entries.
Callers == {1, 2}

\* the arguments the decorated function is called with
Args == {"x", "y"}

\* make_key: a key per argument, different arguments giving different keys
make_key(arg) == IF arg = "x" THEN "a" ELSE "b"

\* cache_[key_] on a store that follows the documented contract of get
contract_get(es, key, t) ==
    IF key \in DOMAIN es /\ Live(es[key], t)
    THEN [raised |-> "none", value |-> es[key].value, entries |-> es]
    ELSE [raised |-> "KeyError", value |-> "None", entries |-> dict_pop(es, key)]

\* cache_.set(...) on a store that follows the documented contract of set
contract_set(es, key, value, time_to_live, if_not_exists, t) ==
    IF if_not_exists /\ key \in DOMAIN es /\ Live(es[key], t)
    THEN [raised |-> "none", ret |-> "False", entries |-> es]
    ELSE [raised |-> "none", ret |-> "True",
          entries |-> dict_set(es, key, _Entry(value, deadline_of(time_to_live, t)))]

\* cache_[key_] when the store is the MemoryBackend
memory_get(es, key, t) ==
    LET r == _get_entry(es, key, t) IN
    [raised |-> r.raised,
     value |-> IF r.raised = "none" THEN r.entry[1].value ELSE "None",
     entries |-> r.entries]

\* the call of line 38, set(key_, value, time_to_live=..., if_not_exists=...),
\* when the store is the MemoryBackend: its set does not take the keyword
memory_set(es, key, value, time_to_live, if_not_exists, t) ==
    [raised |-> "TypeError", ret |-> "None", entries |-> es]

store_get(store, es, key, t) ==
    IF store = "memory" THEN memory_get(es, key, t) ELSE contract_get(es, key, t)

store_set(store, es, key, value, time_to_live, if_not_exists, t) ==
    IF store = "memory"
    THEN memory_set(es, key, value, time_to_live, if_not_exists, t)
    ELSE contract_set(es, key, value, time_to_live, if_not_exists, t)

IdleCaller ==
    [pc |-> "idle", arg |-> "-", key |-> "-", value |-> "None", hit |-> FALSE,
     invocations |-> 0, wrote |-> None, raised |-> "none"]

\* cached(cache, time_to_live=..., if_not_exists=...) applied to a function
Decorated(store) ==
    {[store |-> store, time_to_live |-> ttl, if_not_exists |-> ine,
      callers |-> [c \in Callers |-> IdleCaller],
      invoked |-> [k \in Keys |-> 0],
      returned |-> [k \in Keys |-> {}],
      firstset |-> [k \in Keys |-> None],
      overlapped |-> FALSE,
      started |-> 0] : ttl \in {None, Some(MaxTTL)}, ine \in BOOLEAN}

InitCachedOn(store) ==
    /\ entries = [k \in {} |-> None]
    /\ now = 0
    /\ last = NoCall
    /\ calls = 0
    /\ mut = [k \in Keys |-> NoMut]
    /\ many = NoMany
    /\ threads = NoThreads
    /\ deco \in Decorated(store)

InitCached == InitCachedOn("contract")

InitCachedMemory == InitCachedOn("memory")

Undecorated == << last, calls, mut, many, threads >>

InProgress(c) == deco.callers[c].pc \notin {"idle", "done"}

\* cached_callable, lines 32 and 33: the cache and the key of the call
cached_begin(c, arg) ==
    /\ ~InProgress(c)
    /\ deco.started < MaxCalls
    /\ deco' = [deco EXCEPT
          !.callers[c] = [IdleCaller EXCEPT !.pc = "get", !.arg = arg,
                                            !.key = make_key(arg)],
          !.overlapped = @ \/ (\E d \in Callers \ {c} : InProgress(d)),
          !.started = @ + 1]
    /\ UNCHANGED << entries, now >>
    /\ UNCHANGED Undecorated

\* a wrapper that calls the function whatever the cache holds
after_get_always_call(raised) == "call"

\* lines 34 to 36: a KeyError leads to the call of the function, a value
\* that was found is returned
after_get(raised) == IF raised = "KeyError" THEN "call" ELSE "done"

\* cached_callable, lines 35 and 39: value = cache_[key_]; return value
cached_get(c) ==
    LET me == deco.callers[c]
        r == store_get(deco.store, entries, me.key, now)
        next == after_get(r.raised)
    IN  /\ me.pc = "get"
        /\ entries' = r.entries
        /\ deco' = [deco EXCEPT
              !.callers[c] = [me EXCEPT !.pc = next,
                                        !.hit = (r.raised = "none"),
                                        !.value = r.value],
              !.returned[me.key] = IF next = "done" THEN @ \cup {r.value} ELSE @]
        /\ UNCHANGED now
        /\ UNCHANGED Undecorated

\* cached_callable, line 37: value = callable_(*args, **kwargs)
cached_call(c, value) ==
    LET me == deco.callers[c] IN
    /\ me.pc = "call"
    /\ deco' = [deco EXCEPT
          !.callers[c] = [me EXCEPT !.pc = "set", !.value = value,
                                    !.invocations = @ + 1],
          !.invoked[me.key] = @ + 1]
    /\ UNCHANGED << entries, now >>
    /\ UNCHANGED Undecorated

\* cached_callable, lines 38 and 39: cache_.set(...); return value
cached_set(c) ==
    LET me == deco.callers[c]
        r == store_set(deco.store, entries, me.key, me.value,
                       deco.time_to_live, deco.if_not_exists, now)
    IN  /\ me.pc = "set"
        /\ entries' = r.entries
        /\ deco' = [deco EXCEPT
              !.callers[c] = [me EXCEPT
                  !.pc = "done", !.raised = r.raised,
                  !.wrote = Some([key |-> me.key, value |-> me.value,
                                  time_to_live |-> deco.time_to_live,
                                  if_not_exists |-> deco.if_not_exists])],
              !.firstset[me.key] = IF @ = None THEN Some(me.value) ELSE @,
              !.returned[me.key] = IF r.raised = "none" THEN @ \cup {me.value} ELSE @]
        /\ UNCHANGED now
        /\ UNCHANGED Undecorated

NextCached ==
    \/ \E c \in Callers, arg \in Args : cached_begin(c, arg)
    \/ \E c \in Callers : cached_get(c)
    \/ \E c \in Callers, value \in Values : cached_call(c, value)
    \/ \E c \in Callers : cached_set(c)
    \/ Tick

\* the decorated function on a cache that follows the documented contract
SpecCached == InitCached /\ [][NextCached]_vars

\* the decorated function on the MemoryBackend
SpecCachedMemory == InitCachedMemory /\ [][NextCached]_vars

\* ----------------------------------------------------------------- claims
\* a step that is a call of the backend (and not the clock)
IsCall == calls' # calls

\* the entry a call found for its key, when there was one
Found(key) == key \in DOMAIN entries

\* C1: a get(k) that directly follows set(k, v) without time_to_live returns
\* v and does not raise
C1_RoundTrip ==
    (last.op = "get" /\ last.follows /\ mut[last.key].kind = "set")
        => (last.raised = "none" /\ last.ret = mut[last.key].value)

C1_Witness ==
    /\ last.op = "get" /\ last.follows /\ mut[last.key].kind = "set"
    /\ last.ret = "v2" /\ now = MaxTime

\* C2: a get(k) that follows set(k, v, time_to_live=ttl) with ttl <= 0 raises
\* KeyError
C2_Expiration ==
    [][(/\ IsCall
        /\ last.op = "set" /\ last.raised = "none"
        /\ last.time_to_live # None /\ last.time_to_live[1] <= 0
        /\ last'.op = "get" /\ last'.key = last.key)
            => last'.raised = "KeyError"]_vars

\* C3: get treats an entry as live (returns its value) exactly when the
\* deadline of the entry is None or strictly later than now
C3_LivePredicate ==
    [][(IsCall /\ last'.op = "get" /\ Found(last'.key))
            => LET entry == entries[last'.key] IN
               /\ (last'.raised = "none") <=> Live(entry, now)
               /\ last'.raised = "none" => last'.ret = entry.value
               /\ last'.raised # "none" => last'.raised = "KeyError"]_vars

\* C4: delete(k) never fails, returns true exactly when the mapping held an
\* entry for k before the call, and leaves k absent
C4_Delete ==
    [][(IsCall /\ last'.op = "delete")
            => /\ last'.raised = "none"
               /\ (last'.ret = "True") <=> Found(last'.key)
               /\ (last'.ret = "False") <=> ~Found(last'.key)
               /\ last'.key \notin DOMAIN entries']_vars

\* C5: set(k, v2, if_not_exists=True) writes and returns true exactly when k
\* has no live entry; on a live entry it returns false and changes nothing
C5_IfNotExists ==
    [][(IsCall /\ last'.op = "set" /\ last'.if_not_exists = "True")
            => LET k == last'.key IN
               IF Found(k) /\ Live(entries[k], now)
               THEN /\ last'.raised = "none" /\ last'.ret = "False"
                    /\ entries' = entries
               ELSE /\ last'.raised = "none" /\ last'.ret = "True"
                    /\ k \in DOMAIN entries'
                    /\ entries'[k] =
                         _Entry(last'.value, deadline_of(last'.time_to_live, now))]_vars

\* C6: a get(k) that finds an entry that is not live removes it and raises
\* KeyError; a get(k) that finds a live entry removes nothing
C6_SelfCleaning ==
    [][(IsCall /\ last'.op = "get" /\ Found(last'.key))
            => IF Live(entries[last'.key], now)
               THEN entries' = entries
               ELSE /\ last'.raised = "KeyError"
                    /\ last'.key \notin DOMAIN entries']_vars

\* C7: when get(k) is made on an entry whose deadline has passed and
\* delete(k) is issued directly after it, the get has raised KeyError and the
\* delete returns false
C7_LazyCleanup ==
    [][(/\ IsCall
        /\ last.op = "get" /\ last.found = "expired"
        /\ last'.op = "delete" /\ last'.key = last.key)
            => (last.raised = "KeyError" /\ last'.ret = "False")]_vars

\* C8: a set without if_not_exists never fails, returns true and replaces the
\* entry of k by (v, now + time_to_live), or by (v, None) without time_to_live
C8_UnconditionalSet ==
    [][(IsCall /\ last'.op = "set" /\ last'.if_not_exists = "omitted")
            => /\ last'.raised = "none"
               /\ last'.ret = "True"
               /\ last'.key \in DOMAIN entries'
               /\ entries'[last'.key] =
                    _Entry(last'.value, deadline_of(last'.time_to_live, now))]_vars

\* C9: while the last mutating call for k is a set without time_to_live, or
\* an expire_at/expire_in that cleared the deadline of a live entry, every
\* get(k) returns the value, at every clock value
C9_NoDeadlineNeverExpires ==
    (/\ last.op = "get"
     /\ \/ mut[last.key].kind = "set"
        \/ mut[last.key].kind = "expire" /\ mut[last.key].deadline = None)
        => (last.raised = "none" /\ last.ret = mut[last.key].value)

\* C10: after expire_at(k, d) on a live entry, a get(k) returns the value the
\* entry had while d is None or later than now, and raises KeyError otherwise
C10_ExpireAtKeepsValue ==
    [][(IsCall /\ last'.op = "get" /\ mut[last'.key].kind = "expire")
            => LET m == mut[last'.key] IN
               IF m.deadline = None \/ m.deadline[1] > now
               THEN last'.raised = "none" /\ last'.ret = m.value
               ELSE last'.raised = "KeyError"]_vars

\* C11: expire_at(k, d) on a key that is absent or whose entry has expired
\* does not raise, creates no entry and leaves no live entry for k
C11_ExpireAtNoOp ==
    [][(IsCall /\ last'.op = "expire_at" /\ Holds(last'.key) # "live")
            => LET k == last'.key IN
               /\ last'.raised = "none"
               /\ ~Found(k) => k \notin DOMAIN entries'
               /\ k \in DOMAIN entries' => ~Live(entries'[k], now)]_vars

\* C12: expire_in(k, ttl) sets the deadline of a live entry to now + ttl,
\* and to None without ttl (the entry becomes permanent), keeping the value;
\* on a key without live entry it leaves no live entry, as expire_at does
C12_ExpireIn ==
    [][(IsCall /\ last'.op = "expire_in")
            => LET k == last'.key IN
               IF Holds(k) = "live"
               THEN /\ k \in DOMAIN entries'
                    /\ entries'[k] =
                         _Entry(entries[k].value,
                                IF last'.time_to_live = None THEN None
                                ELSE Some(now + last'.time_to_live[1]))
               ELSE /\ ~Found(k) => k \notin DOMAIN entries'
                    /\ k \in DOMAIN entries' => ~Live(entries'[k], now)]_vars

\* C13: clear() does not fail and leaves the mapping empty
C13_Clear ==
    [][(IsCall /\ last'.op = "clear")
            => (last'.raised = "none" /\ DOMAIN entries' = {})]_vars

\* C19: get, set, delete, expire_at and expire_in of a key k leave the entry
\* of every other key as it was
C19_SingleKeyFrame ==
    [][(IsCall /\ last'.op \in {"get", "set", "delete", "expire_at", "expire_in"})
            => \A other \in Keys \ {last'.key} :
                  dict_get(entries', other) = dict_get(entries, other)]_vars

\* a call of key k has removed the entry of k while the other key holds one
C19_Witness ==
    /\ last.op \in {"get", "delete"}
    /\ last.key \notin DOMAIN entries
    /\ last.op = "get" => last.found # "absent"
    /\ last.op = "delete" => last.ret = "False"
    /\ (Keys \ {last.key}) \cap DOMAIN entries # {}

\* the pairs of the keys that hold a live entry, in the order of the keys
RECURSIVE LivePairs(_)
LivePairs(keys) ==
    IF keys = << >> THEN << >>
    ELSE IF Holds(Head(keys)) = "live"
         THEN << << Head(keys), entries[Head(keys)].value >> >> \o LivePairs(Tail(keys))
         ELSE LivePairs(Tail(keys))

\* C14: get_many(k1, ..., kn) does not raise and yields exactly the pairs
\* (ki, value_i) of the keys that hold a live entry, in the order of the
\* keys, skipping the keys that are absent or expired
C14_GetMany ==
    [][(IsCall /\ last'.op = "get_many")
            => /\ last'.raised = "none"
               /\ many'.pairs = LivePairs(many'.keys)]_vars

\* every concurrent call has returned or raised
AllDone == \A t \in Threads : threads[t].pc = "done"

\* the two threads run the calls a and b, in either assignment
Runs(a, b) ==
    /\ DOMAIN threads = Threads
    /\ \E t, u \in Threads :
          /\ t # u
          /\ threads[t].op = a /\ threads[u].op = b
          /\ threads[t].key = threads[u].key

\* the thread that runs the call op
ThreadOf(op) == CHOOSE t \in Threads : threads[t].op = op

\* C15: when set(k, v1) and delete(k) run concurrently, neither raises, the
\* mapping holds complete entries at every moment, and at the end k is
\* absent or holds the entry written by the set
C15_ConcurrentSetDelete ==
    Runs("set", "delete")
        => LET s == threads[ThreadOf("set")] IN
           /\ \A t \in Threads : threads[t].raised = "none"
           /\ \A k \in DOMAIN entries :
                 /\ entries[k].value \in Values
                 /\ entries[k].deadline = None \/ Len(entries[k].deadline) = 1
           /\ AllDone
                 => \/ s.key \notin DOMAIN entries
                    \/ entries[s.key] = _Entry(s.value, s.deadline)

\* both calls are over, the delete having run before the entry was stored
C15_Witness ==
    /\ Runs("set", "delete") /\ AllDone
    /\ threads[ThreadOf("delete")].ret = "True"
    /\ threads[ThreadOf("set")].key \in DOMAIN entries
    /\ threads[ThreadOf("set")].time_to_live # None

\* C16: when two concurrent get(k) both find the same expired entry, both
\* end with KeyError, and k is absent at the end
C16_ConcurrentExpiredReads ==
    (/\ Runs("get", "get") /\ AllDone
     /\ \A t \in Threads : threads[t].found = "expired")
        => /\ \A t \in Threads : threads[t].raised = "KeyError"
           /\ threads[1].key \notin DOMAIN entries

\* C20: when get(k) runs concurrently with set(k, v) without time_to_live,
\* the removal made by the get never takes the entry written by the set:
\* at the end k holds (v, None)
C20_NoLostWrite ==
    (/\ Runs("get", "set") /\ AllDone
     /\ threads[ThreadOf("set")].time_to_live = None)
        => LET s == threads[ThreadOf("set")] IN
           /\ s.key \in DOMAIN entries
           /\ entries[s.key] = _Entry(s.value, None)

\* C17: a call of the decorated function that finds the key returns the
\* cached value and does not invoke the function; a call that does not find
\* it invokes the function once, calls set(key, result, time_to_live,
\* if_not_exists) and returns the result; so in a sequential run without
\* expiry the function is invoked at most once per key and all calls of a
\* key return the same value
C17_Memoization ==
    [][/\ \A c \in Callers :
            LET before == deco.callers[c]
                after == deco'.callers[c]
            IN  /\ (before.pc = "get" /\ after.pc = "done")
                      => /\ after.hit
                         /\ before.key \in DOMAIN entries
                         /\ after.value = entries[before.key].value
                         /\ after.invocations = 0 /\ after.wrote = None
                         /\ deco'.invoked = deco.invoked
                /\ (before.pc # "done" /\ after.pc = "done" /\ ~after.hit)
                      => /\ after.invocations = 1
                         /\ after.raised = "none"
                         /\ after.wrote =
                              Some([key |-> after.key, value |-> after.value,
                                    time_to_live |-> deco.time_to_live,
                                    if_not_exists |-> deco.if_not_exists])
                         /\ after.value \in deco'.returned[after.key]
       /\ (~deco'.overlapped /\ deco'.time_to_live = None)
            => \A k \in Keys :
                  /\ deco'.invoked[k] <= 1
                  /\ Cardinality(deco'.returned[k]) <= 1]_vars

\* in a sequential run, a call has computed and stored the value of a key
\* and a later call of the same key has found it
C17_Witness ==
    /\ ~deco.overlapped /\ deco.time_to_live = None
    /\ \E c, d \in Callers :
          /\ deco.callers[c].pc = "done" /\ deco.callers[d].pc = "done"
          /\ deco.callers[c].key = deco.callers[d].key
          /\ ~deco.callers[c].hit /\ deco.callers[d].hit
          /\ deco.callers[c].value = deco.callers[d].value
          /\ deco.invoked[deco.callers[c].key] = 1

\* C18: with if_not_exists=True, when two concurrent calls of the decorated
\* function for one key both miss and both compute, the cache holds at the
\* end the value of the set that came first
C18_StampedeGuard ==
    (/\ deco.if_not_exists /\ deco.time_to_live = None
     /\ \A c \in Callers :
           /\ deco.callers[c].pc = "done"
           /\ ~deco.callers[c].hit /\ deco.callers[c].invocations = 1
     /\ deco.callers[1].key = deco.callers[2].key)
        => LET k == deco.callers[1].key IN
           /\ k \in DOMAIN entries
           /\ deco.firstset[k] # None
           /\ entries[k].value = deco.firstset[k][1]

====
